---- MODULE Spec2Model ----
\* Scene compositor and export engine of components/Player.tsx.
\* Times are integers in milliseconds; opacities and transition progress are
\* integers in thousandths (1000 = 1.0); playback rates are in fortieths
\* (40 = 1.0x), so that 0.95x and 1.05x of the base rates used here are exact.
EXTENDS Integers, Sequences, FiniteSets, TLC

VARIABLES scenes, cfg, dims, audio, exportT, totalT, isPlaying, isExporting,
          isExportingRef, exportIsPlaying, exportPc, imageCache, video,
          lastActiveSceneId, particles, frame, lastTick, lastT, lastIdx,
          rafDraw, rafExport, status, emberTicks, step, sampled,
          vaporPaused, audioCtx, recorder, staleLoop,
          channelData, trimmed, pcmBuffer, sampleRate, wavBlob, retry

\* the state of the narration audio service (services/geminiService.ts)
service == <<channelData, trimmed, pcmBuffer, sampleRate, wavBlob, retry>>

vars == <<scenes, cfg, dims, audio, exportT, totalT, isPlaying, isExporting,
          isExportingRef, exportIsPlaying, exportPc, imageCache, video,
          lastActiveSceneId, particles, frame, lastTick, lastT, lastIdx,
          rafDraw, rafExport, status, emberTicks, step, sampled,
          vaporPaused, audioCtx, recorder, staleLoop,
          channelData, trimmed, pcmBuffer, sampleRate, wavBlob, retry>>

\* ---------------------------------------------------------------- scales

\* one second, in the model's time unit
SEC == 1000

\* 1.0 as an opacity or a transition progress
ONE == 1000

\* 1.0x as a playback rate
RATE_ONE == 40

\* ---------------------------------------------------------------- bounds

\* between two frames real time passes by at most MaxSteps clock steps
MaxSteps == 3

\* ticks explored with the ember layer enabled
MaxEmberTicks == 2

\* ---------------------------------------------------------------- constants

TRANSITION_DURATION == 1000
EMBER_CAP == 50
EMBER_LIFE == 180

NoUrl == "none"
NoScene == 0 - 1

Max(a, b) == IF a >= b THEN a ELSE b
Min(a, b) == IF a <= b THEN a ELSE b
Abs(a) == IF a >= 0 THEN a ELSE 0 - a

\* ---------------------------------------------------------------- inputs

MkScene(id, st, en, img, clip, tt) ==
    [id |-> id, startTime |-> st, endTime |-> en, imageUrl |-> img,
     videoClipUrl |-> clip, transitionType |-> tt]

\* the two scenes of the straight-cut scenario: [0,5) and [5,10), standard fade
FadeScenes ==
    << MkScene("s1", 0, 5000, "img1", NoUrl, "standard"),
       MkScene("s2", 5000, 10000, "img2", NoUrl, "standard") >>

\* two polygon-wipe scenes after a late start, then a gap and a scene
\* without any asset
WipeScenes ==
    << MkScene("e1", 500, 2000, "imgE", NoUrl, "polygon-wipe"),
       MkScene("f2", 2000, 3500, "imgE", NoUrl, "polygon-wipe"),
       MkScene("g3", 4000, 5500, NoUrl, NoUrl, "parallax-2.5d") >>

\* a zoom-through still followed by a scene that has a still and a clip
ClipScenes ==
    << MkScene("a1", 0, 1200, "imgA", NoUrl, "zoom-through"),
       MkScene("b2", 1200, 3000, "imgA", "clipB", "standard") >>

\* one scene, shown with the ember layer on
EmberScenes ==
    << MkScene("h1", 0, 1000, "imgH", NoUrl, "standard") >>

\* one scene whose clip is twice as long as the scene (base rate 2.0)
SyncScenes ==
    << MkScene("v1", 0, 600, NoUrl, "clipV", "standard") >>

\* the same with a long scene, for frames that come seconds apart
SlowSyncScenes ==
    << MkScene("w1", 0, 6000, NoUrl, "clipW", "standard") >>

\* duration of the media behind a clip url, in ms
ClipDuration(url) ==
    IF url = "clipB" THEN 1800
    ELSE IF url = "clipV" THEN 1200
    ELSE IF url = "clipW" THEN 12000
    ELSE 1200

MkCfg(embers, vapor, grain, letterbox, assembly) ==
    [enableEmbers |-> embers, enableVaporOverlay |-> vapor,
     filmGrain |-> grain, enableLetterboxing |-> letterbox,
     enablePolygonAssembly |-> assembly]

\* (scene list, narration duration, clock step, effect configuration, frame size)
Scenarios ==
    { [scenes |-> FadeScenes, duration |-> 10000, step |-> 1800,
       cfg |-> MkCfg(FALSE, FALSE, TRUE, TRUE, FALSE),
       dims |-> [width |-> 1280, height |-> 720]],
      [scenes |-> WipeScenes, duration |-> 6000, step |-> 500,
       cfg |-> MkCfg(FALSE, TRUE, FALSE, TRUE, FALSE),
       dims |-> [width |-> 1280, height |-> 720]],
      [scenes |-> ClipScenes, duration |-> 3000, step |-> 600,
       cfg |-> MkCfg(FALSE, FALSE, FALSE, FALSE, TRUE),
       dims |-> [width |-> 720, height |-> 1280]],
      [scenes |-> EmberScenes, duration |-> 1000, step |-> 500,
       cfg |-> MkCfg(TRUE, TRUE, TRUE, TRUE, FALSE),
       dims |-> [width |-> 720, height |-> 720]] }

\* ---------------------------------------------------------------- lookup

\* variant: the end of the range counted as inside
SceneActiveAt_ClosedEnd(s, t) == t >= s.startTime /\ t <= s.endTime

\* the predicate of scenes.findIndex: currentTime >= s.startTime && currentTime < s.endTime
SceneActiveAt(s, t) == t >= s.startTime /\ t < s.endTime

RECURSIVE FindFrom(_, _, _)
FindFrom(sc, t, i) ==
    IF i > Len(sc) THEN NoScene
    ELSE IF SceneActiveAt(sc[i], t) THEN i - 1
    ELSE FindFrom(sc, t, i + 1)

\* scenes.findIndex(...): the 0-based index of the first scene whose range
\* holds t, or -1
FindIndex(sc, t) == FindFrom(sc, t, 1)

\* scenes[idx], for idx >= 0
SceneAt(sc, idx) == sc[idx + 1]

\* ---------------------------------------------------------------- video slots

\* readyState of the ambient overlay <video>: no code gives it a source
VaporReadyState == 0

HAVE_CURRENT_DATA == 2
HAVE_ENOUGH_DATA == 4

EmptySlot ==
    [src |-> "", paused |-> TRUE, readyState |-> 0, currentTime |-> 0,
     playbackRate |-> RATE_ONE]

\* v of renderSceneFrame: the slot whose src is the url (video1 first), 0 for null
MatchSlot(vids, url) ==
    IF vids[1].src = url THEN 1 ELSE IF vids[2].src = url THEN 2 ELSE 0

\* nextV.src = url; nextV.load(); nextV.currentTime = 0
LoadSlot(vids, k, url) ==
    [vids EXCEPT ![k] = [src |-> url, paused |-> TRUE, readyState |-> 0,
                         currentTime |-> 0, playbackRate |-> RATE_ONE]]

\* nextV = video1.paused ? video1 : video2
NextSlot(vids) == IF vids[1].paused THEN 1 ELSE 2

\* "Predictive Pre-loading logic": the slots and lastActiveSceneId after it;
\* idx is the active index (the copy in exportLoop is the same code)
Preload(vids, last, sc, idx) ==
    IF idx # NoScene /\ SceneAt(sc, idx).id # last
    THEN LET s == SceneAt(sc, idx)
             v1Match == vids[1].src = s.videoClipUrl
             v2Match == vids[2].src = s.videoClipUrl
         IN [last |-> s.id,
             video |-> IF ~v1Match /\ ~v2Match /\ s.videoClipUrl # NoUrl
                       THEN LoadSlot(vids, NextSlot(vids), s.videoClipUrl)
                       ELSE vids]
    ELSE [last |-> last, video |-> vids]

\* ---------------------------------------------------------------- velocity sync

SNAP_DRIFT == 500
NUDGE_DRIFT == 50

\* baseRate = (v.duration || sceneDuration) / sceneDuration, in fortieths
BaseRate(s) == (RATE_ONE * ClipDuration(s.videoClipUrl)) \div (s.endTime - s.startTime)

\* targetTime = elapsed * baseRate
TargetTime(s, time) ==
    ((time - s.startTime) * ClipDuration(s.videoClipUrl)) \div (s.endTime - s.startTime)

\* variant: the nudge applied the wrong way round (faster when ahead)
SyncSlot_WrongWay(v, s, time) ==
    LET drift == v.currentTime - TargetTime(s, time)
    IN IF Abs(drift) > SNAP_DRIFT
       THEN [v EXCEPT !.currentTime = TargetTime(s, time)]
       ELSE IF Abs(drift) > NUDGE_DRIFT
       THEN [v EXCEPT !.playbackRate =
                 IF drift > 0 THEN (BaseRate(s) * 105) \div 100
                 ELSE (BaseRate(s) * 95) \div 100]
       ELSE [v EXCEPT !.playbackRate = BaseRate(s)]

\* variant: the hard reposition also resets the playback rate
SyncSlot_SnapResetsRate(v, s, time) ==
    LET drift == v.currentTime - TargetTime(s, time)
    IN IF Abs(drift) > SNAP_DRIFT
       THEN [v EXCEPT !.currentTime = TargetTime(s, time),
                      !.playbackRate = BaseRate(s)]
       ELSE IF Abs(drift) > NUDGE_DRIFT
       THEN [v EXCEPT !.playbackRate =
                 IF drift > 0 THEN (BaseRate(s) * 95) \div 100
                 ELSE (BaseRate(s) * 105) \div 100]
       ELSE [v EXCEPT !.playbackRate = BaseRate(s)]

\* the correction applied to a ready slot v for scene s at clock time `time`
SyncSlot(v, s, time) ==
    LET drift == v.currentTime - TargetTime(s, time)
    IN IF Abs(drift) > SNAP_DRIFT
       THEN [v EXCEPT !.currentTime = TargetTime(s, time)]
       ELSE IF Abs(drift) > NUDGE_DRIFT
       THEN [v EXCEPT !.playbackRate =
                 IF drift > 0 THEN (BaseRate(s) * 95) \div 100
                 ELSE (BaseRate(s) * 105) \div 100]
       ELSE [v EXCEPT !.playbackRate = BaseRate(s)]

\* "Layer 2: Video with Dynamic Sync": the slots after one renderSceneFrame
RenderVideo(vids, s, time, playing) ==
    LET k == MatchSlot(vids, s.videoClipUrl)
    IN IF s.videoClipUrl # NoUrl /\ k # 0 /\ vids[k].readyState >= HAVE_CURRENT_DATA
       THEN LET synced == SyncSlot(vids[k], s, time)
            IN [vids EXCEPT ![k] =
                   IF playing /\ synced.paused
                   THEN [synced EXCEPT !.paused = FALSE]
                   ELSE synced]
       ELSE vids

\* ---------------------------------------------------------------- scene render

\* variant: only the incoming scene fades, the outgoing one stays opaque
Opacity_OutgoingOpaque(tt, tp, isOutgoing) ==
    IF isOutgoing THEN ONE
    ELSE IF tt = "polygon-wipe" THEN ONE ELSE tp

\* opacity chosen by the "Transition Logic" of renderSceneFrame
Opacity(tt, tp, isOutgoing) ==
    IF isOutgoing
    THEN IF tt = "zoom-through" THEN ONE - tp
         ELSE IF tt = "polygon-wipe" THEN ONE
         ELSE ONE - tp
    ELSE IF tt = "zoom-through" THEN tp
         ELSE IF tt = "polygon-wipe" THEN ONE
         ELSE tp

\* variant: the wipe sized from the shorter side of the frame
WipeSize_ShortSide(d, tp) == (Min(d.width, d.height) * tp * 15) \div (ONE * 10)

\* size of the hexagonal wipe: Math.max(width, height) * p * 1.5
WipeSize(d, tp) == (Max(d.width, d.height) * tp * 15) \div (ONE * 10)

\* number of vertices of the wipe path (the loop for i < 6)
WipeVertices == 6

\* the canvas operations of one renderSceneFrame(ctx, scene, time,
\* transitionProgress, isOutgoing), as one layer record. zoom is the
\* transition's own scale factor (in thousandths); clip is the radius of the
\* clip path, -1 when the render is not clipped; video tells whether the clip
\* frame was drawn and drift is the drift the velocity sync measured for it.
RenderLayer(s, time, tp, isOutgoing, cache, vids, c, d) ==
    LET elapsed == time - s.startTime
        k == MatchSlot(vids, s.videoClipUrl)
        wipe == ~isOutgoing /\ s.transitionType = "polygon-wipe"
    IN [op |-> "scene", id |-> s.id, outgoing |-> isOutgoing, progress |-> tp,
        tt |-> s.transitionType,
        opacity |-> Opacity(s.transitionType, tp, isOutgoing),
        zoom |-> IF isOutgoing /\ s.transitionType = "zoom-through"
                 THEN ONE + 4 * tp ELSE ONE,
        clip |-> IF wipe THEN WipeSize(d, tp) ELSE 0 - 1,
        vertices |-> IF wipe THEN WipeVertices ELSE 0,
        triangles |-> IF c.enablePolygonAssembly /\ ~isOutgoing /\ elapsed < SEC
                      THEN (20 * (SEC - elapsed)) \div SEC ELSE 0,
        image |-> s.imageUrl # NoUrl /\ s.imageUrl \in cache,
        video |-> s.videoClipUrl # NoUrl /\ k # 0
                  /\ vids[k].readyState >= HAVE_CURRENT_DATA,
        drift |-> IF s.videoClipUrl # NoUrl /\ k # 0
                     /\ vids[k].readyState >= HAVE_CURRENT_DATA
                  THEN vids[k].currentTime - TargetTime(s, time) ELSE 0]

\* ---------------------------------------------------------------- frame

FillBlack == [op |-> "fillBlack"]

Call(idx, tp, isOutgoing) == [idx |-> idx, tp |-> tp, outgoing |-> isOutgoing]

\* variant: the transition window closed at its end (tIn <= TRANSITION_DURATION)
DrawRenders_ClosedWindow(sc, idx, t) ==
    LET tIn == t - SceneAt(sc, idx).startTime
    IN IF idx > 0 /\ tIn <= TRANSITION_DURATION
       THEN << Call(idx - 1, (tIn * ONE) \div TRANSITION_DURATION, TRUE),
               Call(idx, (tIn * ONE) \div TRANSITION_DURATION, FALSE) >>
       ELSE << Call(idx, ONE, FALSE) >>

\* variant: progress measured against half the transition window
DrawRenders_HalfWindow(sc, idx, t) ==
    LET tIn == t - SceneAt(sc, idx).startTime
    IN IF idx > 0 /\ tIn < TRANSITION_DURATION
       THEN << Call(idx - 1, (2 * tIn * ONE) \div TRANSITION_DURATION, TRUE),
               Call(idx, (2 * tIn * ONE) \div TRANSITION_DURATION, FALSE) >>
       ELSE << Call(idx, ONE, FALSE) >>

\* the renderSceneFrame calls of draw for the active index idx >= 0 at time t:
\* "Transition Phase" (previous scene outgoing, then active scene incoming)
\* or "Stable Phase"
DrawRenders(sc, idx, t) ==
    LET tIn == t - SceneAt(sc, idx).startTime
    IN IF idx > 0 /\ tIn < TRANSITION_DURATION
       THEN << Call(idx - 1, (tIn * ONE) \div TRANSITION_DURATION, TRUE),
               Call(idx, (tIn * ONE) \div TRANSITION_DURATION, FALSE) >>
       ELSE << Call(idx, ONE, FALSE) >>

\* the renderSceneFrame calls of exportLoop
ExportRenders(sc, idx, t) ==
    LET tIn == t - SceneAt(sc, idx).startTime
    IN IF idx > 0 /\ tIn < TRANSITION_DURATION
       THEN << Call(idx - 1, (tIn * ONE) \div TRANSITION_DURATION, TRUE),
               Call(idx, (tIn * ONE) \div TRANSITION_DURATION, FALSE) >>
       ELSE << Call(idx, ONE, FALSE) >>

\* the layer records of a sequence of render calls
SceneLayers(calls, sc, t, cache, vids, c, d) ==
    [i \in 1..Len(calls) |->
        RenderLayer(SceneAt(sc, calls[i].idx), t, calls[i].tp, calls[i].outgoing,
                    cache, vids, c, d)]

\* the slots after the calls, made in order
RECURSIVE RenderVideos(_, _, _, _, _, _)
RenderVideos(vids, calls, i, sc, t, playing) ==
    IF i > Len(calls) THEN vids
    ELSE RenderVideos(RenderVideo(vids, SceneAt(sc, calls[i].idx), t, playing),
                      calls, i + 1, sc, t, playing)

\* !activeScene || (!activeScene.imageUrl && !activeScene.videoClipUrl)
NothingToShow(sc, idx) ==
    \/ idx = NoScene
    \/ /\ SceneAt(sc, idx).imageUrl = NoUrl
       /\ SceneAt(sc, idx).videoClipUrl = NoUrl

\* the two letterbox bars, each 10% of the frame height
Bars(d) ==
    << [op |-> "bar", y |-> 0, h |-> d.height \div 10],
       [op |-> "bar", y |-> d.height - d.height \div 10, h |-> d.height \div 10] >>

\* the canvas operations of one draw() at clock time t, in the order issued;
\* vids are the slots after the pre-loading step
DrawFrame(sc, t, cache, vids, c, d) ==
    LET idx == FindIndex(sc, t)
    IN (IF NothingToShow(sc, idx) THEN << FillBlack >> ELSE << >>)
       \o (IF idx # NoScene
           THEN << FillBlack >>
                \o SceneLayers(DrawRenders(sc, idx, t), sc, t, cache, vids, c, d)
           ELSE << >>)
       \o (IF c.enableEmbers THEN << [op |-> "embers", forced |-> FALSE] >> ELSE << >>)
       \o (IF c.enableVaporOverlay /\ VaporReadyState >= HAVE_CURRENT_DATA
           THEN << [op |-> "vapor"] >> ELSE << >>)
       \o (IF c.filmGrain THEN << [op |-> "grain"] >> ELSE << >>)
       \o (IF c.enableLetterboxing THEN Bars(d) ELSE << >>)

\* the canvas operations of one exportLoop() at export clock time t
ExportFrame(sc, t, cache, vids, c, d) ==
    LET idx == FindIndex(sc, t)
    IN (IF NothingToShow(sc, idx) THEN << FillBlack >> ELSE << >>)
       \o (IF idx # NoScene
           THEN SceneLayers(ExportRenders(sc, idx, t), sc, t, cache, vids, c, d)
           ELSE << >>)
       \o (IF c.enableEmbers THEN << [op |-> "embers", forced |-> TRUE] >> ELSE << >>)
       \o (IF c.filmGrain THEN << [op |-> "grain"] >> ELSE << >>)

\* ---------------------------------------------------------------- embers

\* vertical speeds drawn for a new ember, px per tick (-random * 2.5 - 0.8)
EmberSpeeds == {0 - 1, 0 - 3}

\* p.x += p.vx; p.y += p.vy; p.life--
MoveEmber(p) == [p EXCEPT !.y = p.y + p.vy, !.life = p.life - 1]

\* p.life <= 0 || p.y < -20
EmberGone(p) == p.life <= 0 \/ p.y < 0 - 20

\* variant: the cap compared with <=
MaySpawn_OffByOne(ps) == Len(ps) <= EMBER_CAP

\* the push of updateParticles happens while fewer than 50 embers live
MaySpawn(ps) == Len(ps) < EMBER_CAP

\* particlesRef.current after updateParticles(ctx, isDeterministic); rnd is
\* the outcome of Math.random() > 0.6 and vy the speed drawn for a new ember
UpdateParticles(ps, c, d, isDeterministic, rnd, vy) ==
    IF ~c.enableEmbers THEN << >>
    ELSE LET spawned ==
                 IF MaySpawn(ps) /\ (isDeterministic \/ rnd)
                 THEN Append(ps, [life |-> EMBER_LIFE, y |-> d.height + 10, vy |-> vy])
                 ELSE ps
             moved == [i \in 1..Len(spawned) |-> MoveEmber(spawned[i])]
         IN SelectSeq(moved, LAMBDA p : ~EmberGone(p))

\* ---------------------------------------------------------------- state

Idle == [step |-> "idle", progress |-> 0, message |-> ""]

\* no frame callback of an export run that is over is pending
NoLoop == [t |-> 0 - 1, playing |-> FALSE]

\* the trimmer has not been called
NoTrim ==
    [returned |-> "none", keepSegments |-> << >>, totalSamples |-> 0,
     cleanedPcm |-> << >>, header |-> << >>]

\* executeWithRetry has not been called
NoRetry ==
    [pc |-> "idle", apiKey |-> TRUE, given |-> 0, retries |-> 0,
     attempts |-> << >>, delays |-> << >>]

\* no narration is being processed and no request is under way
ServiceIdle ==
    /\ channelData = << >>
    /\ trimmed = NoTrim
    /\ pcmBuffer = << >>
    /\ sampleRate = 0
    /\ wavBlob = << >>
    /\ retry = NoRetry

\* the player right after it was mounted with the props of scenario sn
PlayerInit(sn) ==
    /\ scenes = sn.scenes
    /\ cfg = sn.cfg
    /\ dims = sn.dims
    /\ audio = [currentTime |-> 0, paused |-> TRUE, ended |-> FALSE,
                duration |-> sn.duration]
    /\ exportT = 0
    /\ totalT = 0
    /\ isPlaying = FALSE
    /\ isExporting = FALSE
    /\ isExportingRef = FALSE
    /\ exportIsPlaying = FALSE
    /\ exportPc = "idle"
    /\ vaporPaused = TRUE
    /\ audioCtx = "none"
    /\ recorder = "none"
    /\ imageCache = {}
    /\ video = [k \in 1..2 |-> EmptySlot]
    /\ lastActiveSceneId = "null"
    /\ particles = << >>
    /\ frame = << >>
    /\ lastTick = "none"
    /\ lastT = 0
    /\ lastIdx = NoScene
    /\ rafDraw = FALSE
    /\ rafExport = FALSE
    /\ staleLoop = NoLoop
    /\ status = Idle
    /\ emberTicks = 0
    /\ step = sn.step
    /\ sampled = TRUE

InitOf(sn) == PlayerInit(sn) /\ ServiceIdle

Init == \E sn \in Scenarios : InitOf(sn)

\* ---------------------------------------------------------------- environment

\* a playing clip after dt ms: it advances at its playback rate and stops at its end
AdvanceSlot(v, dt) ==
    IF v.paused \/ v.readyState < HAVE_CURRENT_DATA \/ v.src = "" THEN v
    ELSE LET dur == ClipDuration(v.src)
             pos == v.currentTime + (dt * v.playbackRate) \div RATE_ONE
         IN IF v.currentTime >= dur THEN [v EXCEPT !.paused = TRUE]
            ELSE IF pos >= dur THEN [v EXCEPT !.currentTime = dur, !.paused = TRUE]
            ELSE [v EXCEPT !.currentTime = pos]

\* the narration <audio> after dt ms
AdvanceAudio(a, dt) ==
    IF a.paused \/ a.ended THEN a
    ELSE IF a.currentTime + dt >= a.duration
    THEN [a EXCEPT !.currentTime = a.duration, !.ended = TRUE]
    ELSE [a EXCEPT !.currentTime = a.currentTime + dt]

SomethingRuns ==
    \/ ~audio.paused /\ ~audio.ended
    \/ rafExport
    \/ \E k \in 1..2 : ~video[k].paused /\ video[k].currentTime < ClipDuration(video[k].src)

\* real time passes between two frames: the media elements and the
\* audio-graph clock advance together (the clock of a closed context stands)
Elapse ==
    \E n \in 1..MaxSteps :
        /\ SomethingRuns
        /\ sampled
        /\ sampled' = FALSE
        /\ audio' = AdvanceAudio(audio, n * step)
        /\ exportT' = IF rafExport /\ audioCtx = "running"
                    THEN exportT + n * step ELSE exportT
        /\ video' = [k \in 1..2 |-> AdvanceSlot(video[k], n * step)]
        /\ UNCHANGED <<lastIdx, staleLoop, step, scenes, cfg, dims, service, vaporPaused, audioCtx, recorder, totalT, isPlaying, isExporting,
                       isExportingRef, exportIsPlaying, exportPc, imageCache,
                       lastActiveSceneId, particles, frame, lastTick, lastT,
                       rafDraw, rafExport, status, emberTicks>>

\* img.onload of the image-cache effect
ImageLoaded ==
    \E i \in 1..Len(scenes) :
        /\ scenes[i].imageUrl # NoUrl
        /\ scenes[i].imageUrl \notin imageCache
        /\ imageCache' = imageCache \cup {scenes[i].imageUrl}
        /\ UNCHANGED <<lastIdx, sampled, staleLoop, step, scenes, cfg, dims, service, vaporPaused, audioCtx, recorder, audio, exportT, totalT, isPlaying,
                       isExporting, isExportingRef, exportIsPlaying, exportPc,
                       video, lastActiveSceneId, particles, frame, lastTick,
                       lastT, rafDraw, rafExport, status, emberTicks>>

\* a slot that was given a source has buffered (preload="auto")
VideoReady ==
    \E k \in 1..2 :
        /\ video[k].src # ""
        /\ video[k].readyState < HAVE_CURRENT_DATA
        /\ video' = [video EXCEPT ![k].readyState = HAVE_ENOUGH_DATA]
        /\ UNCHANGED <<lastIdx, sampled, staleLoop, step, scenes, cfg, dims, service, vaporPaused, audioCtx, recorder, audio, exportT, totalT, isPlaying,
                       isExporting, isExportingRef, exportIsPlaying, exportPc,
                       imageCache, lastActiveSceneId, particles, frame, lastTick,
                       lastT, rafDraw, rafExport, status, emberTicks>>

\* ---------------------------------------------------------------- interactive loop

PauseAll(vids) == [k \in 1..2 |-> [vids[k] EXCEPT !.paused = TRUE]]

\* togglePlay: pause every source, or start the narration; the effect on
\* [isPlaying, draw] then calls draw() or cancels the pending frame
TogglePlay ==
    /\ IF isPlaying
       THEN /\ audio' = [audio EXCEPT !.paused = TRUE]
            /\ vaporPaused' = TRUE
            /\ video' = PauseAll(video)
            /\ isPlaying' = FALSE
            /\ rafDraw' = FALSE
       ELSE /\ audio' = [audio EXCEPT !.paused = FALSE,
                            !.ended = FALSE,
                            !.currentTime = IF audio.ended THEN 0 ELSE audio.currentTime]
            /\ vaporPaused' = IF cfg.enableVaporOverlay THEN FALSE ELSE vaporPaused
            /\ video' = video
            /\ isPlaying' = TRUE
            /\ rafDraw' = TRUE
    /\ UNCHANGED <<lastIdx, sampled, staleLoop, step, scenes, cfg, dims, service, audioCtx, recorder, exportT, totalT, isExporting, isExportingRef,
                   exportIsPlaying, exportPc, imageCache, lastActiveSceneId,
                   particles, frame, lastTick, lastT, rafExport, status,
                   emberTicks>>

EmberBudget == cfg.enableEmbers => emberTicks < MaxEmberTicks

\* variant: the loop goes on until the narration is paused, ended or not
GoOn_IgnoresEnded(a) == ~a.paused

\* !audio.paused && !audio.ended: draw() requests the next frame
GoOn(a) == ~a.paused /\ ~a.ended

\* one draw(): returns at once while exporting, otherwise composes a frame at
\* audio.currentTime and reschedules itself unless the narration paused or ended
Draw ==
    /\ rafDraw
    /\ IF isExporting
       THEN /\ rafDraw' = FALSE
            /\ UNCHANGED <<video, lastActiveSceneId, particles, frame, lastTick,
                           lastT, lastIdx, isPlaying, emberTicks, sampled>>
       ELSE \E rnd \in BOOLEAN, vy \in EmberSpeeds :
            LET t == audio.currentTime
                idx == FindIndex(scenes, t)
                pre == Preload(video, lastActiveSceneId, scenes, idx)
                drawn == IF idx # NoScene
                         THEN RenderVideos(pre.video, DrawRenders(scenes, idx, t), 1,
                                           scenes, t, isPlaying)
                         ELSE pre.video
                goOn == GoOn(audio)
            IN /\ EmberBudget
               /\ lastActiveSceneId' = pre.last
               /\ frame' = DrawFrame(scenes, t, imageCache, pre.video, cfg, dims)
               /\ particles' = IF cfg.enableEmbers
                               THEN UpdateParticles(particles, cfg, dims, FALSE, rnd, vy)
                               ELSE particles
               /\ emberTicks' = IF cfg.enableEmbers THEN emberTicks + 1 ELSE emberTicks
               /\ lastTick' = "draw"
               /\ sampled' = TRUE
               /\ lastT' = t
               /\ lastIdx' = idx
               /\ rafDraw' = goOn
               /\ isPlaying' = IF goOn THEN isPlaying ELSE FALSE
               /\ video' = IF goOn THEN drawn ELSE PauseAll(drawn)
    /\ UNCHANGED <<staleLoop, step, scenes, cfg, dims, service, vaporPaused, audioCtx, recorder, audio, exportT, totalT, isExporting,
                   isExportingRef, exportIsPlaying, exportPc, imageCache,
                   rafExport, status>>

\* ---------------------------------------------------------------- export

\* Math.min(99, Math.round((currentT / totalT) * 100))
ExportProgress(t, tot) == Min(99, (2 * 100 * t + tot) \div (2 * tot))

\* the status reported by the catch block of handleExport
CrashStatus_StillExporting ==
    [step |-> "exporting", progress |-> 0, message |-> "Export engine crash."]

CrashStatus == [step |-> "idle", progress |-> 0, message |-> "Export engine crash."]

\* handleExport up to its first await, the audio context included: refused
\* while an export is running (the button is disabled while exporting and
\* without scenes); the click is handled after any frame callback that was
\* still pending when an earlier run ended
HandleExport ==
    /\ ~isExportingRef
    /\ ~isExporting /\ Len(scenes) > 0
    /\ ~rafExport
    /\ isExportingRef' = TRUE
    /\ isExporting' = TRUE
    /\ exportIsPlaying' = isPlaying
    /\ exportPc' = "setup"
    /\ audioCtx' = "running"
    /\ recorder' = "none"
    /\ status' = [step |-> "exporting", progress |-> 5,
                  message |-> "Warming Master Render Engine..."]
    /\ UNCHANGED <<lastIdx, sampled, staleLoop, step, scenes, cfg, dims, service, vaporPaused, audio,
                   exportT, totalT, isPlaying, imageCache, video,
                   lastActiveSceneId, particles, frame, lastTick, lastT, rafDraw,
                   rafExport, emberTicks>>

\* handleExport when the AudioContext constructor throws: the catch block runs
\* in the same turn, so the exporting state is never rendered as true
ExportContextFail ==
    /\ ~isExportingRef
    /\ ~isExporting /\ Len(scenes) > 0
    /\ ~rafExport
    /\ exportPc' = "failed"
    /\ audioCtx' = "none"
    /\ recorder' = "none"
    /\ status' = CrashStatus
    /\ UNCHANGED <<lastIdx, sampled, staleLoop, step, scenes, cfg, dims, service, vaporPaused, audio,
                   exportT, totalT, isPlaying, isExporting, isExportingRef,
                   exportIsPlaying, imageCache, video, lastActiveSceneId,
                   particles, frame, lastTick, lastT, rafDraw, rafExport,
                   emberTicks>>

\* the catch block of handleExport after an await: fetch, decodeAudioData,
\* captureStream or the MediaRecorder constructor threw; the effect on
\* [isPlaying, draw] calls draw() again if still playing
ExportSetupFail ==
    /\ exportPc = "setup"
    /\ isExporting' = FALSE
    /\ isExportingRef' = FALSE
    /\ exportPc' = "failed"
    /\ status' = CrashStatus
    /\ rafDraw' = isPlaying
    /\ UNCHANGED <<lastIdx, sampled, staleLoop, step, scenes, cfg, dims, service, vaporPaused, audioCtx,
                   recorder, audio, exportT, totalT, isPlaying, exportIsPlaying,
                   imageCache, video, lastActiveSceneId, particles, frame,
                   lastTick, lastT, rafExport, emberTicks>>

\* currentT < totalT: the loop goes on
ExportContinues_PastEnd(t, tot) == t <= tot

ExportContinues(t, tot) == t < tot

\* the body of exportLoop() past its liveness check, up to the status report:
\* one frame composed at export clock time t, `playing` being the isPlaying
\* that the closure of handleExport holds
ExportRender(t, tot, playing) ==
    \E vy \in EmberSpeeds :
    LET idx == FindIndex(scenes, t)
        pre == Preload(video, lastActiveSceneId, scenes, idx)
    IN /\ EmberBudget
       /\ lastActiveSceneId' = pre.last
       /\ video' = IF idx # NoScene
                   THEN RenderVideos(pre.video, ExportRenders(scenes, idx, t), 1,
                                     scenes, t, playing)
                   ELSE pre.video
       /\ frame' = ExportFrame(scenes, t, imageCache, pre.video, cfg, dims)
       /\ particles' = IF cfg.enableEmbers
                       THEN UpdateParticles(particles, cfg, dims, TRUE, FALSE, vy)
                       ELSE particles
       /\ emberTicks' = IF cfg.enableEmbers THEN emberTicks + 1 ELSE emberTicks
       /\ lastTick' = "export"
       /\ lastT' = t
       /\ lastIdx' = idx
       /\ status' = [step |-> "exporting", progress |-> ExportProgress(t, tot),
                     message |-> "Seamless Export"]

\* one exportLoop() at export clock time t with narration length tot, the
\* recorder being in state rec; recorder.stop() on an inactive recorder throws
ExportBody(t, tot, rec) ==
    IF ~isExportingRef
    THEN /\ rafExport' = FALSE
         /\ recorder' = rec
         /\ UNCHANGED <<video, lastActiveSceneId, particles, frame, lastTick,
                        lastT, lastIdx, status, exportPc, emberTicks, sampled>>
    ELSE /\ ExportRender(t, tot, exportIsPlaying)
         /\ sampled' = TRUE
         /\ rafExport' = ExportContinues(t, tot)
         /\ recorder' = IF ExportContinues(t, tot) THEN rec ELSE "inactive"
         /\ exportPc' = IF ExportContinues(t, tot) /\ rec = "recording"
                        THEN "running" ELSE "stopping"

\* setup succeeded: recorder.start(), mainSource.start(0), then the first exportLoop()
ExportSetupDone ==
    /\ exportPc = "setup"
    /\ totalT' = audio.duration
    /\ exportT' = 0
    /\ ExportBody(0, audio.duration, "recording")
    /\ UNCHANGED <<staleLoop, step, scenes, cfg, dims, service, vaporPaused, audioCtx, audio, isPlaying,
                   isExporting, isExportingRef, exportIsPlaying, imageCache,
                   rafDraw>>

\* setup succeeded but the first exportLoop(), called inside the try block,
\* throws before its first canvas call: the catch block runs, the recorder
\* and the source that were started are left running
ExportFirstLoopThrows ==
    /\ exportPc = "setup"
    /\ isExporting' = FALSE
    /\ isExportingRef' = FALSE
    /\ exportPc' = "failed"
    /\ recorder' = "recording"
    /\ status' = CrashStatus
    /\ rafDraw' = isPlaying
    /\ UNCHANGED <<lastIdx, sampled, staleLoop, step, scenes, cfg, dims, service, vaporPaused, audioCtx,
                   audio, exportT, totalT, isPlaying, exportIsPlaying, imageCache,
                   video, lastActiveSceneId, particles, frame, lastTick, lastT,
                   rafExport, emberTicks>>

\* a scheduled exportLoop() runs
ExportLoop ==
    /\ rafExport
    /\ ExportBody(exportT, totalT, recorder)
    /\ UNCHANGED <<staleLoop, step, scenes, cfg, dims, service, vaporPaused, audioCtx, audio, exportT,
                   totalT, isPlaying, isExporting, isExportingRef,
                   exportIsPlaying, imageCache, rafDraw>>

\* a scheduled exportLoop() throws before its first canvas call: it runs as a
\* frame callback, outside the try block, and has requested no further frame
ExportLoopThrows ==
    /\ rafExport
    /\ isExportingRef
    /\ rafExport' = FALSE
    /\ UNCHANGED <<lastIdx, sampled, staleLoop, step, scenes, cfg, dims, service, vaporPaused, audioCtx,
                   recorder, audio, exportT, totalT, isPlaying, isExporting,
                   isExportingRef, exportIsPlaying, exportPc, imageCache, video,
                   lastActiveSceneId, particles, frame, lastTick, lastT, rafDraw,
                   status, emberTicks>>

\* the MediaRecorder stops by itself (encoder error, or the captured tracks
\* ended) while the loop is running: its stop event is queued
RecorderFails ==
    /\ exportPc = "running"
    /\ recorder = "recording"
    /\ recorder' = "inactive"
    /\ exportPc' = "stopping"
    /\ UNCHANGED <<lastIdx, sampled, staleLoop, step, scenes, cfg, dims, service, vaporPaused, audioCtx,
                   audio, exportT, totalT, isPlaying, isExporting, isExportingRef,
                   exportIsPlaying, imageCache, video, lastActiveSceneId,
                   particles, frame, lastTick, lastT, rafDraw, rafExport, status,
                   emberTicks>>

\* variant: onstop leaves the audio context open
RecorderStop_KeepsContext ==
    /\ exportPc = "stopping"
    /\ isExporting' = FALSE
    /\ isExportingRef' = FALSE
    /\ exportPc' = "done"
    /\ rafDraw' = isPlaying
    /\ UNCHANGED <<lastIdx, sampled, staleLoop, step, scenes, cfg, dims, service, vaporPaused, recorder,
                   audioCtx, audio, exportT, totalT, isPlaying, exportIsPlaying,
                   imageCache, video, lastActiveSceneId, particles, frame,
                   lastTick, lastT, rafExport, status, emberTicks>>

\* recorder.onstop: the file is handed over, the export flags are cleared,
\* onExportComplete() is called and the audio context is closed; the effect
\* on [isPlaying, draw] calls draw() again if still playing
RecorderStop ==
    /\ exportPc = "stopping"
    /\ isExporting' = FALSE
    /\ isExportingRef' = FALSE
    /\ exportPc' = "done"
    /\ audioCtx' = "closed"
    /\ rafDraw' = isPlaying
    /\ UNCHANGED <<lastIdx, sampled, staleLoop, step, scenes, cfg, dims, service, vaporPaused, recorder,
                   audio, exportT, totalT, isPlaying, exportIsPlaying, imageCache,
                   video, lastActiveSceneId, particles, frame, lastTick, lastT,
                   rafExport, status, emberTicks>>

\* ---------------------------------------------------------------- specification

Next ==
    \/ Elapse
    \/ ImageLoaded
    \/ VideoReady
    \/ TogglePlay
    \/ Draw
    \/ HandleExport
    \/ ExportSetupFail
    \/ ExportSetupDone
    \/ ExportLoop
    \/ RecorderStop

Spec == Init /\ [][Next]_vars

\* ---------------------------------------------------------------- embers near the cap

EmberScenario == CHOOSE sn \in Scenarios : sn.scenes = EmberScenes

\* numbers of earlier ticks that each spawned an ember while the cap allowed
EmberWarmups == {49, 50, 179}

\* the embers after n < 180 such ticks, none of which has removed an ember:
\* the j-th was pushed by tick j and moved by the ticks j..n
Warm(n, d) ==
    [j \in 1..Min(n, EMBER_CAP) |->
        [life |-> EMBER_LIFE - (n - j + 1),
         y |-> d.height + 10 - 3 * (n - j + 1),
         vy |-> 0 - 3]]

\* the preview was started and paused at once, n frames having been drawn
InitEmbers ==
    \E n \in EmberWarmups :
        /\ scenes = EmberScenario.scenes
        /\ cfg = EmberScenario.cfg
        /\ dims = EmberScenario.dims
        /\ step = EmberScenario.step
        /\ audio = [currentTime |-> 0, paused |-> TRUE, ended |-> FALSE,
                    duration |-> EmberScenario.duration]
        /\ exportT = 0
        /\ totalT = 0
        /\ isPlaying = FALSE
        /\ isExporting = FALSE
        /\ isExportingRef = FALSE
        /\ exportIsPlaying = FALSE
        /\ exportPc = "idle"
        /\ vaporPaused = TRUE
        /\ audioCtx = "none"
        /\ recorder = "none"
        /\ imageCache = {}
        /\ video = [k \in 1..2 |-> EmptySlot]
        /\ lastActiveSceneId = EmberScenario.scenes[1].id
        /\ particles = Warm(n, EmberScenario.dims)
        /\ frame = DrawFrame(EmberScenario.scenes, 0, {}, [k \in 1..2 |-> EmptySlot],
                             EmberScenario.cfg, EmberScenario.dims)
        /\ lastTick = "draw"
        /\ lastT = 0
        /\ lastIdx = 0
        /\ rafDraw = FALSE
        /\ rafExport = FALSE
        /\ staleLoop = NoLoop
        /\ status = Idle
        /\ emberTicks = 0
        /\ sampled = TRUE
        /\ ServiceIdle

\* the steps of a session none of whose scenes loads a clip into a slot
NextLoaded ==
    \/ Elapse
    \/ ImageLoaded
    \/ TogglePlay
    \/ Draw
    \/ HandleExport
    \/ ExportSetupFail
    \/ ExportSetupDone
    \/ ExportLoop
    \/ RecorderStop

SpecEmbers == InitEmbers /\ [][NextLoaded]_vars

\* ---------------------------------------------------------------- a drifting clip

SyncScenarios ==
    { [scenes |-> SyncScenes, duration |-> 600, step |-> 40, t0 |-> 280],
      [scenes |-> SlowSyncScenes, duration |-> 6000, step |-> 1200, t0 |-> 1200] }

\* drifts of the clip from its target, in ms, as a stall or a seek leaves them
SyncDrifts == {0 - 520, 0 - 500, 0 - 60, 48, 60, 500, 520}

NoEffects == MkCfg(FALSE, FALSE, FALSE, FALSE, FALSE)

\* the slots of a playing preview at clock time t0 whose clip, bound to the
\* first slot and buffered, is d ms away from its target
DriftingSlots(sn, d) ==
    [k \in 1..2 |->
        IF k = 1
        THEN [src |-> sn.scenes[1].videoClipUrl, paused |-> FALSE,
              readyState |-> HAVE_ENOUGH_DATA,
              currentTime |-> TargetTime(sn.scenes[1], sn.t0) + d,
              playbackRate |-> BaseRate(sn.scenes[1])]
        ELSE EmptySlot]

\* the state right after the frame drawn at t0 on those slots
InitSync ==
    \E sn \in SyncScenarios, d \in SyncDrifts :
        /\ scenes = sn.scenes
        /\ cfg = NoEffects
        /\ dims = [width |-> 1280, height |-> 720]
        /\ step = sn.step
        /\ audio = [currentTime |-> sn.t0, paused |-> FALSE, ended |-> FALSE,
                    duration |-> sn.duration]
        /\ exportT = 0
        /\ totalT = 0
        /\ isPlaying = TRUE
        /\ isExporting = FALSE
        /\ isExportingRef = FALSE
        /\ exportIsPlaying = FALSE
        /\ exportPc = "idle"
        /\ vaporPaused = TRUE
        /\ audioCtx = "none"
        /\ recorder = "none"
        /\ imageCache = {}
        /\ video = RenderVideos(DriftingSlots(sn, d), DrawRenders(sn.scenes, 0, sn.t0),
                                1, sn.scenes, sn.t0, TRUE)
        /\ lastActiveSceneId = sn.scenes[1].id
        /\ particles = << >>
        /\ frame = DrawFrame(sn.scenes, sn.t0, {}, DriftingSlots(sn, d), NoEffects,
                             [width |-> 1280, height |-> 720])
        /\ lastTick = "draw"
        /\ lastT = sn.t0
        /\ lastIdx = 0
        /\ rafDraw = TRUE
        /\ rafExport = FALSE
        /\ staleLoop = NoLoop
        /\ status = Idle
        /\ emberTicks = 0
        /\ sampled = TRUE
        /\ ServiceIdle

\* the steps of a preview session of scenes without stills in which no
\* export is requested
NextPreview ==
    \/ Elapse
    \/ TogglePlay
    \/ Draw

SpecSync == InitSync /\ [][NextPreview]_vars

\* ---------------------------------------------------------------- a tick on a drifting clip

DriftScenario == CHOOSE sn \in SyncScenarios : sn.scenes = SyncScenes

\* the playing preview at clock time t0, its next frame requested, whose
\* clip is d ms away from its target and still plays at a rate of 1.0
InitDrift ==
    \E d \in SyncDrifts :
        /\ scenes = DriftScenario.scenes
        /\ cfg = NoEffects
        /\ dims = [width |-> 1280, height |-> 720]
        /\ step = DriftScenario.step
        /\ audio = [currentTime |-> DriftScenario.t0, paused |-> FALSE,
                    ended |-> FALSE, duration |-> DriftScenario.duration]
        /\ exportT = 0
        /\ totalT = 0
        /\ isPlaying = TRUE
        /\ isExporting = FALSE
        /\ isExportingRef = FALSE
        /\ exportIsPlaying = FALSE
        /\ exportPc = "idle"
        /\ vaporPaused = TRUE
        /\ audioCtx = "none"
        /\ recorder = "none"
        /\ imageCache = {}
        /\ video = [DriftingSlots(DriftScenario, d) EXCEPT ![1].playbackRate = RATE_ONE]
        /\ lastActiveSceneId = DriftScenario.scenes[1].id
        /\ particles = << >>
        /\ frame = << >>
        /\ lastTick = "none"
        /\ lastT = 0
        /\ lastIdx = NoScene
        /\ rafDraw = TRUE
        /\ rafExport = FALSE
        /\ staleLoop = NoLoop
        /\ status = Idle
        /\ emberTicks = 0
        /\ sampled = FALSE
        /\ ServiceIdle

SpecDrift == InitDrift /\ [][NextPreview]_vars

\* ---------------------------------------------------------------- export faults

\* one short scene without effects
FaultScenario ==
    [scenes |-> EmberScenes, duration |-> 1000, step |-> 500,
     cfg |-> MkCfg(FALSE, FALSE, FALSE, FALSE, FALSE),
     dims |-> [width |-> 720, height |-> 720]]

InitFaults == InitOf(FaultScenario)

\* a session in which the export can fail at every point: the context or the
\* setup throws, a loop iteration throws, the recorder stops by itself
NextFaults ==
    \/ Elapse
    \/ ImageLoaded
    \/ TogglePlay
    \/ Draw
    \/ HandleExport
    \/ ExportContextFail
    \/ ExportSetupFail
    \/ ExportSetupDone
    \/ ExportFirstLoopThrows
    \/ ExportLoop
    \/ ExportLoopThrows
    \/ RecorderFails
    \/ RecorderStop

SpecFaults == InitFaults /\ [][NextFaults]_vars

\* ---------------------------------------------------------------- overlapping runs

\* handleExport called after the recorder of the previous run has stopped by
\* itself and its stop handler has cleared the flags, but before the frame
\* callback that the previous loop had requested: that callback stays pending,
\* with the closure of the previous run (its clock stands, its context is closed)
HandleExportEarly ==
    /\ ~isExportingRef
    /\ ~isExporting /\ Len(scenes) > 0
    /\ rafExport
    /\ staleLoop = NoLoop
    /\ staleLoop' = [t |-> exportT, playing |-> exportIsPlaying]
    /\ rafExport' = FALSE
    /\ isExportingRef' = TRUE
    /\ isExporting' = TRUE
    /\ exportIsPlaying' = isPlaying
    /\ exportPc' = "setup"
    /\ audioCtx' = "running"
    /\ recorder' = "none"
    /\ status' = [step |-> "exporting", progress |-> 5,
                  message |-> "Warming Master Render Engine..."]
    /\ UNCHANGED <<lastIdx, sampled, step, scenes, cfg, dims, service, vaporPaused, audio,
                   exportT, totalT, isPlaying, imageCache, video,
                   lastActiveSceneId, particles, frame, lastTick, lastT, rafDraw,
                   emberTicks>>

\* the pending frame callback of a previous run: it reads the shared flag; if
\* the flag is set it composes a frame at its own clock time and reports its
\* own progress, then requests the next frame, or calls stop() on its
\* inactive recorder, which throws
StaleExportLoop ==
    /\ staleLoop # NoLoop
    /\ IF ~isExportingRef
       THEN /\ staleLoop' = NoLoop
            /\ UNCHANGED <<video, lastActiveSceneId, particles, frame, lastTick,
                           lastT, lastIdx, status, emberTicks, sampled>>
       ELSE /\ ExportRender(staleLoop.t, totalT, staleLoop.playing)
            /\ sampled' = sampled
            /\ staleLoop' = IF ExportContinues(staleLoop.t, totalT)
                            THEN staleLoop ELSE NoLoop
    /\ UNCHANGED <<step, scenes, cfg, dims, service, vaporPaused, audioCtx, audio, exportT,
                   totalT, isPlaying, isExporting, isExportingRef,
                   exportIsPlaying, exportPc, recorder, imageCache, rafDraw,
                   rafExport>>

InitRuns == InitOf(FaultScenario)

\* a session with export requests at any moment and recorders that may stop
\* by themselves
NextRuns ==
    \/ Elapse
    \/ TogglePlay
    \/ Draw
    \/ HandleExport
    \/ HandleExportEarly
    \/ ExportSetupFail
    \/ ExportSetupDone
    \/ ExportLoop
    \/ StaleExportLoop
    \/ RecorderFails
    \/ RecorderStop

SpecRuns == InitRuns /\ [][NextRuns]_vars

\* ---------------------------------------------------------------- an export run

\* the scenario whose narration is a whole number of clock steps long
RunScenarios == {sn \in Scenarios : sn.scenes = WipeScenes}

InitRun == \E sn \in RunScenarios : InitOf(sn)

\* a session whose exports meet no fault
NextRun ==
    \/ Elapse
    \/ ImageLoaded
    \/ TogglePlay
    \/ Draw
    \/ HandleExport
    \/ ExportSetupDone
    \/ ExportLoop
    \/ RecorderStop

\* the audio-graph clock keeps advancing, frame callbacks and recorder events
\* are delivered, and the awaited setup steps resolve
SpecRun ==
    /\ InitRun
    /\ [][NextRun]_vars
    /\ WF_vars(Elapse)
    /\ WF_vars(ExportSetupDone)
    /\ WF_vars(ExportLoop)
    /\ WF_vars(RecorderStop)

\* ---------------------------------------------------------------- clips mapped later

\* one video scene generated without a clip
AttachScenes ==
    << MkScene("k1", 0, 1200, NoUrl, NoUrl, "standard") >>

\* URL.createObjectURL(fileList[idx]) for the idx-th video scene
ObjectUrl(i) == IF i = 1 THEN "clipK" ELSE "clipM"

AttachScenario ==
    [scenes |-> AttachScenes, duration |-> 1200, step |-> 600,
     cfg |-> MkCfg(FALSE, FALSE, FALSE, FALSE, FALSE),
     dims |-> [width |-> 1280, height |-> 720]]

\* handleBulkVideoUpload maps n files onto the first n video scenes that
\* the project holds (a scene that has a clip gets the new object url too, which
\* is the same file here); the player is rendered with the new scenes, so
\* draw is re-created and the effect on [isPlaying, draw] calls it if playing.
\* The files are picked while no export is running.
AttachClips ==
    \E n \in 1..Len(scenes) :
        /\ ~isExporting /\ ~isExportingRef /\ ~rafExport
        /\ \E i \in 1..n : scenes[i].videoClipUrl = NoUrl
        /\ scenes' = [i \in 1..Len(scenes) |->
                         IF i <= n
                         THEN [scenes[i] EXCEPT !.videoClipUrl = ObjectUrl(i)]
                         ELSE scenes[i]]
        /\ rafDraw' = isPlaying
        /\ UNCHANGED <<lastIdx, sampled, staleLoop, step, cfg, dims, service, vaporPaused, audioCtx,
                       recorder, audio, exportT, totalT, isPlaying, isExporting,
                       isExportingRef, exportIsPlaying, exportPc, imageCache, video,
                       lastActiveSceneId, particles, frame, lastTick, lastT,
                       rafExport, status, emberTicks>>

InitAttach == InitOf(AttachScenario)

\* a session in which the clips are mapped at any moment between two exports
NextAttach ==
    \/ Elapse
    \/ VideoReady
    \/ TogglePlay
    \/ Draw
    \/ AttachClips
    \/ HandleExport
    \/ ExportSetupDone
    \/ ExportLoop
    \/ RecorderStop

SpecAttach == InitAttach /\ [][NextAttach]_vars

\* ---------------------------------------------------------------- three clips in a row

\* three consecutive scenes with a clip each, the second one shorter than
\* the transition window
TrioScenes ==
    << MkScene("p1", 0, 1200, NoUrl, "clipP", "standard"),
       MkScene("q2", 1200, 1520, NoUrl, "clipQ", "standard"),
       MkScene("r3", 1520, 2720, NoUrl, "clipR", "standard") >>

TrioScenario ==
    [scenes |-> TrioScenes, duration |-> 2720, step |-> 160,
     cfg |-> MkCfg(FALSE, FALSE, FALSE, FALSE, FALSE),
     dims |-> [width |-> 1280, height |-> 720]]

\* the player after the first togglePlay: the narration plays and a draw()
\* is due
InitTrio ==
    /\ ServiceIdle
    /\ scenes = TrioScenario.scenes
    /\ cfg = TrioScenario.cfg
    /\ dims = TrioScenario.dims
    /\ audio = [currentTime |-> 0, paused |-> FALSE, ended |-> FALSE,
                duration |-> TrioScenario.duration]
    /\ exportT = 0
    /\ totalT = 0
    /\ isPlaying = TRUE
    /\ isExporting = FALSE
    /\ isExportingRef = FALSE
    /\ exportIsPlaying = FALSE
    /\ exportPc = "idle"
    /\ vaporPaused = TRUE
    /\ audioCtx = "none"
    /\ recorder = "none"
    /\ imageCache = {}
    /\ video = [k \in 1..2 |-> EmptySlot]
    /\ lastActiveSceneId = "null"
    /\ particles = << >>
    /\ frame = << >>
    /\ lastTick = "none"
    /\ lastT = 0
    /\ lastIdx = NoScene
    /\ rafDraw = TRUE
    /\ rafExport = FALSE
    /\ staleLoop = NoLoop
    /\ status = Idle
    /\ emberTicks = 0
    /\ step = TrioScenario.step
    /\ sampled = TRUE

\* one playback, and exports, while the clips buffer at any moment
NextTrio ==
    \/ Elapse
    \/ VideoReady
    \/ Draw
    \/ HandleExport
    \/ ExportSetupDone
    \/ ExportLoop
    \/ RecorderStop

SpecTrio == InitTrio /\ [][NextTrio]_vars

\* ---------------------------------------------------------------- silence trimmer

\* the variables of the player, which the audio service never touches
player ==
    <<scenes, cfg, dims, audio, exportT, totalT, isPlaying, isExporting,
      isExportingRef, exportIsPlaying, exportPc, imageCache, video,
      lastActiveSceneId, particles, frame, lastTick, lastT, lastIdx,
      rafDraw, rafExport, status, emberTicks, step, sampled,
      vaporPaused, audioCtx, recorder, staleLoop>>

\* longest waveform explored, in blocks
MaxBlocks == 7

\* sample rate of the trimmer's AudioContext, which decodeAudioData resamples to
SAMPLE_RATE == 24000

\* threshold = 0.015, in thousandths of full scale
THRESHOLD == 15

\* minSilenceSamples = sampleRate * 0.4
MinSilenceSamples(rate) == (rate * 4) \div 10

\* paddingSamples = sampleRate * 0.1
PaddingSamples(rate) == rate \div 10

\* A waveform is given by blocks of BlockLen consecutive samples of one
\* amplitude each: channelData[b + 1] is the amplitude, in thousandths, of the
\* samples b * BlockLen .. (b + 1) * BlockLen - 1.
BlockLen == PaddingSamples(SAMPLE_RATE)

\* at the threshold, just above it, silent, and loud beyond full scale
Amplitudes == {0, THRESHOLD, THRESHOLD + 1, 0 - 1200}

Waveforms == UNION {[1..n -> Amplitudes] : n \in 0..MaxBlocks}

\* variant: a sample at the threshold counts as loud
IsLoud_AtThreshold(x) == Abs(x) >= THRESHOLD

\* amplitude > threshold
IsLoud(x) == Abs(x) > THRESHOLD

\* the loop variables before the first sample
TrimStart ==
    [isSilent |-> TRUE, silenceStart |-> 0, keepSegments |-> << >>,
     currentSegmentStart |-> 0 - 1]

\* the loop variables after the samples of block b (counted from 0) of
\* amplitude x, in a waveform of n samples. In a loud block every sample
\* moves silenceStart, the first one opens a segment if none is open. In a
\* quiet block the segment is closed at the first sample i with
\* i - silenceStart > minSilenceSamples, if the block holds one.
TrimBlock(st, x, b, n, rate) ==
    LET first == b * BlockLen
        last == first + BlockLen - 1
    IN IF IsLoud(x)
       THEN [st EXCEPT !.currentSegmentStart =
                           IF st.currentSegmentStart = 0 - 1
                           THEN Max(0, first - PaddingSamples(rate))
                           ELSE st.currentSegmentStart,
                       !.isSilent = FALSE,
                       !.silenceStart = last]
       ELSE IF ~st.isSilent /\ (last - st.silenceStart) > MinSilenceSamples(rate)
       THEN LET i == Max(first, st.silenceStart + MinSilenceSamples(rate) + 1)
                end == Min(n, i - MinSilenceSamples(rate) + PaddingSamples(rate))
            IN [st EXCEPT !.keepSegments =
                              Append(st.keepSegments,
                                     [start |-> st.currentSegmentStart, end |-> end]),
                          !.currentSegmentStart = 0 - 1,
                          !.isSilent = TRUE]
       ELSE st

RECURSIVE TrimLoop(_, _, _, _)
\* for (let i = 0; i < channelData.length; i++), from block b on
TrimLoop(st, data, b, rate) ==
    IF b >= Len(data) THEN st
    ELSE TrimLoop(TrimBlock(st, data[b + 1], b, Len(data) * BlockLen, rate),
                  data, b + 1, rate)

\* variant: a segment still open after the last sample is dropped
KeepSegments_DropsOpenSegment(data, rate) ==
    TrimLoop(TrimStart, data, 0, rate).keepSegments

\* keepSegments after the loop and "Add final segment if needed"
KeepSegments(data, rate) ==
    LET st == TrimLoop(TrimStart, data, 0, rate)
    IN IF st.currentSegmentStart # 0 - 1
       THEN Append(st.keepSegments,
                   [start |-> st.currentSegmentStart, end |-> Len(data) * BlockLen])
       ELSE st.keepSegments

RECURSIVE TotalSamples(_)
\* keepSegments.reduce((acc, seg) => acc + (seg.end - seg.start), 0)
TotalSamples(segs) ==
    IF segs = << >> THEN 0
    ELSE (Head(segs).end - Head(segs).start) + TotalSamples(Tail(segs))

\* Math.max(-1, Math.min(1, x)) * 32767 stored into an Int16Array: the
\* fraction is dropped
ToInt16(x) ==
    LET c == Max(0 - 1000, Min(1000, x))
    IN IF c >= 0 THEN (c * 32767) \div 1000 ELSE 0 - (((0 - c) * 32767) \div 1000)

RECURSIVE CleanedPcm(_, _)
\* cleanedPcm, block by block: the samples of the kept segments, converted
CleanedPcm(segs, data) ==
    IF segs = << >> THEN << >>
    ELSE [k \in 1..((Head(segs).end - Head(segs).start) \div BlockLen) |->
              ToInt16(data[Head(segs).start \div BlockLen + k])]
         \o CleanedPcm(Tail(segs), data)

\* ---------------------------------------------------------------- WAV encoder

\* longest PCM payload explored, in samples
MaxSamples == 2

\* view.setUint16(o, v, true): two bytes, low byte first
Uint16LE(v) == << v % 256, (v \div 256) % 256 >>

\* variant: the four bytes high byte first
Uint32LE_BigEndian(v) ==
    << (v \div 16777216) % 256, (v \div 65536) % 256, (v \div 256) % 256, v % 256 >>

\* view.setUint32(o, v, true): four bytes, low byte first, v taken modulo 2^32
Uint32LE(v) ==
    << v % 256, (v \div 256) % 256, (v \div 65536) % 256, (v \div 16777216) % 256 >>

\* the char codes written by writeStr
RIFF == << 82, 73, 70, 70 >>
WAVE == << 87, 65, 86, 69 >>
FMT == << 102, 109, 116, 32 >>
DATA == << 100, 97, 116, 97 >>

\* the 44 bytes of wavHeader for a payload of byteLength bytes
WavHeader(byteLength, rate) ==
    RIFF \o Uint32LE(36 + byteLength) \o WAVE
    \o FMT \o Uint32LE(16) \o Uint16LE(1) \o Uint16LE(1)
    \o Uint32LE(rate) \o Uint32LE(rate * 2) \o Uint16LE(2) \o Uint16LE(16)
    \o DATA \o Uint32LE(byteLength)

\* new Blob([wavHeader, pcmBuffer]): the bytes of the blob
CreateWavBlob(pcm, rate) == WavHeader(Len(pcm), rate) \o pcm

\* sample rates an AudioContext or a decoder hands out
SampleRates == {8000, SAMPLE_RATE, 44100, 48000}

\* 16-bit sample values: zero, the smallest steps and both ends of the range
SampleValues == {0, 1, 0 - 1, 32767, 0 - 32768}

\* the two bytes of an Int16Array element, low byte first
Int16Bytes(v) == Uint16LE((v + 65536) % 65536)

RECURSIVE PcmBytes(_)
\* the ArrayBuffer under an Int16Array
PcmBytes(samples) ==
    IF samples = << >> THEN << >>
    ELSE Int16Bytes(Head(samples)) \o PcmBytes(Tail(samples))

Payloads ==
    {PcmBytes(smp) : smp \in UNION {[1..n -> SampleValues] : n \in 0..MaxSamples}}

\* ---------------------------------------------------------------- audio service

\* trimSilenceFromAudio(blob), from the decoded channel data on
TrimSilenceFromAudio ==
    /\ trimmed.returned = "pending"
    /\ LET segs == KeepSegments(channelData, sampleRate)
       IN trimmed' =
              IF Len(segs) = 0
              THEN [NoTrim EXCEPT !.returned = "original"]
              ELSE [returned |-> "wav",
                    keepSegments |-> segs,
                    totalSamples |-> TotalSamples(segs),
                    cleanedPcm |-> CleanedPcm(segs, channelData),
                    header |-> WavHeader(2 * TotalSamples(segs), sampleRate)]
    /\ UNCHANGED <<player, channelData, pcmBuffer, sampleRate, wavBlob, retry>>

\* a decoded narration is handed to the trimmer
InitTrim ==
    /\ PlayerInit(FaultScenario)
    /\ channelData \in Waveforms
    /\ trimmed = [NoTrim EXCEPT !.returned = "pending"]
    /\ pcmBuffer = << >>
    /\ sampleRate = SAMPLE_RATE
    /\ wavBlob = << >>
    /\ retry = NoRetry

NextTrim == TrimSilenceFromAudio

SpecTrim == InitTrim /\ [][NextTrim]_vars

\* createWavBlob(pcmBuffer, sampleRate)
CreateWav ==
    /\ wavBlob = << >>
    /\ wavBlob' = CreateWavBlob(pcmBuffer, sampleRate)
    /\ UNCHANGED <<player, channelData, trimmed, pcmBuffer, sampleRate, retry>>

\* a PCM buffer is handed to the encoder
InitWav ==
    /\ PlayerInit(FaultScenario)
    /\ channelData = << >>
    /\ trimmed = NoTrim
    /\ pcmBuffer \in Payloads
    /\ sampleRate \in SampleRates
    /\ wavBlob = << >>
    /\ retry = NoRetry

NextWav == CreateWav

SpecWav == InitWav /\ [][NextWav]_vars

\* ---------------------------------------------------------------- retry engine

\* largest number of retries a call is given
MaxRetries == 4

\* the cap on the delay between two attempts, in ms
MAX_DELAY == 45000

\* error.status || error.response?.status of a failed attempt; 0 stands for
\* an error without a status (undefined and 0 take the same branches)
Statuses == {0, 400, 404, 429, 499, 500, 503}

\* what one await operation(ai) can come to
Outcomes ==
    {[ok |-> TRUE, status |-> 0]} \cup {[ok |-> FALSE, status |-> st] : st \in Statuses}

\* variant: every failure counts as transient
IsTransient_AnyFailure(st) == TRUE

\* status === 429 || status >= 500 || !status
IsTransient(st) == st = 429 \/ st >= 500 \/ st = 0

RECURSIVE Pow2(_)
Pow2(n) == IF n <= 0 THEN 1 ELSE 2 * Pow2(n - 1)

\* delayMs = Math.min(baseDelay * Math.pow(2, attemptNumber), 45000) with
\* attemptNumber = 3 - retries, which is negative when more than 3 retries
\* are left; setTimeout drops the fraction of a millisecond
DelayMs(st, retries) ==
    LET baseDelay == IF st = 429 THEN 5000 ELSE 1000
        attemptNumber == 3 - retries
    IN Min(IF attemptNumber >= 0
           THEN baseDelay * Pow2(attemptNumber)
           ELSE baseDelay \div Pow2(0 - attemptNumber),
           MAX_DELAY)

\* the API key test at the head of executeWithRetry(operation, retries)
CheckApiKey ==
    /\ retry.pc = "called"
    /\ retry' = [retry EXCEPT !.pc = IF retry.apiKey THEN "try" ELSE "thrown"]
    /\ UNCHANGED <<player, channelData, trimmed, pcmBuffer, sampleRate, wavBlob>>

\* one await operation(ai) and, if it throws, the catch block up to setTimeout
Attempt ==
    \E o \in Outcomes :
        /\ retry.pc = "try"
        /\ retry' =
              [retry EXCEPT
                 !.attempts = Append(retry.attempts, o),
                 !.pc = IF o.ok THEN "returned"
                        ELSE IF IsTransient(o.status) /\ retry.retries > 0
                        THEN "waiting" ELSE "thrown",
                 !.delays = IF ~o.ok /\ IsTransient(o.status) /\ retry.retries > 0
                            THEN Append(retry.delays, DelayMs(o.status, retry.retries))
                            ELSE retry.delays]
        /\ UNCHANGED <<player, channelData, trimmed, pcmBuffer, sampleRate, wavBlob>>

\* the timer fires: executeWithRetry(operation, retries - 1), whose key test
\* passes again
RetryTimer ==
    /\ retry.pc = "waiting"
    /\ retry' = [retry EXCEPT !.pc = "try", !.retries = retry.retries - 1]
    /\ UNCHANGED <<player, channelData, trimmed, pcmBuffer, sampleRate, wavBlob>>

\* executeWithRetry(operation, r) has just been called, with or without a key
InitRetry ==
    /\ PlayerInit(FaultScenario)
    /\ channelData = << >>
    /\ trimmed = NoTrim
    /\ pcmBuffer = << >>
    /\ sampleRate = 0
    /\ wavBlob = << >>
    /\ \E r \in 0..MaxRetries, key \in BOOLEAN :
          retry = [pc |-> "called", apiKey |-> key, given |-> r, retries |-> r,
                   attempts |-> << >>, delays |-> << >>]

NextRetry ==
    \/ CheckApiKey
    \/ Attempt
    \/ RetryTimer

SpecRetry == InitRetry /\ [][NextRetry]_vars

\* ---------------------------------------------------------------- properties

Ticked == lastTick # "none"

\* the renderSceneFrame layers of the last frame, in the order drawn
Renders == SelectSeq(frame, LAMBDA l : l.op = "scene")

\* the scenes whose range holds t
Holding(t) ==
    {i \in 1..Len(scenes) : scenes[i].startTime <= t /\ t < scenes[i].endTime}

\* rank of a layer in the order scene content, embers, overlay video, grain, bars
LayerRank(l) ==
    IF l.op \in {"fillBlack", "scene"} THEN 1
    ELSE IF l.op = "embers" THEN 2
    ELSE IF l.op = "vapor" THEN 3
    ELSE IF l.op = "grain" THEN 4
    ELSE 5

\* what draw() composes for the clock time, slots and cache of the last tick,
\* with the ember spawn forced
InteractiveFrameForced ==
    [i \in 1..Len(DrawFrame(scenes, lastT, imageCache, video, cfg, dims)) |->
        LET l == DrawFrame(scenes, lastT, imageCache, video, cfg, dims)[i]
        IN IF l.op = "embers" THEN [l EXCEPT !.forced = TRUE] ELSE l]

\* C1: a tick of the export loop issues the same canvas layers as a tick of the
\* interactive loop would for the same clock time, scenes, cache, slots and
\* effect configuration, except that the ember spawn is forced.
C1_ExportFrameEqualsInteractive ==
    (lastTick = "export")
        => [i \in 1..Len(frame) |-> [op |-> frame[i].op]]
           = [i \in 1..Len(InteractiveFrameForced) |->
                 [op |-> InteractiveFrameForced[i].op]]

\* C2: with ordered, non-overlapping ranges the lookup of a tick returns the
\* one scene whose [startTime, endTime) holds the clock time, and -1 exactly
\* when no range holds it.
C2_ActiveSceneLookup ==
    Ticked =>
        /\ Cardinality(Holding(lastT)) <= 1
        /\ (lastIdx = NoScene <=> Holding(lastT) = {})
        /\ (lastIdx # NoScene => Holding(lastT) = {lastIdx + 1})

\* a tick found the second scene at the very start of its range
C2_Witness ==
    /\ Ticked /\ Len(scenes) >= 2
    /\ lastIdx = 1 /\ lastT = scenes[2].startTime /\ lastT = scenes[1].endTime

\* the active scene of the last tick has an asset that can be drawn now
Drawable ==
    /\ lastIdx # NoScene
    /\ \E i \in 1..Len(Renders) :
          /\ Renders[i].id = SceneAt(scenes, lastIdx).id
          /\ Renders[i].image \/ Renders[i].video

\* C3: on every tick of either loop the scene-content layer holds nothing
\* stale: when no scene holds the clock time or the active scene has no
\* drawable asset, the frame starts with a black fill.
C3_BlackWhenNothingDrawable ==
    (Ticked /\ ~Drawable) => (Len(frame) >= 1 /\ frame[1].op = "fillBlack")

\* C4: a tick with active index idx and tIn into the scene renders the
\* previous scene as outgoing and then the active scene as incoming, both with
\* progress tIn / 1.0, when idx > 0 and tIn < 1.0; otherwise it renders the
\* active scene alone, not outgoing, with progress 1.0.
C4_RendersPerTick ==
    (Ticked /\ lastIdx # NoScene) =>
        LET tIn == lastT - SceneAt(scenes, lastIdx).startTime
        IN IF lastIdx > 0 /\ tIn < SEC
           THEN /\ Len(Renders) = 2
                /\ Renders[1].id = SceneAt(scenes, lastIdx - 1).id
                /\ Renders[1].outgoing
                /\ Renders[2].id = SceneAt(scenes, lastIdx).id
                /\ ~Renders[2].outgoing
                /\ Renders[1].progress * SEC = tIn * ONE
                /\ Renders[2].progress * SEC = tIn * ONE
           ELSE /\ Len(Renders) = 1
                /\ Renders[1].id = SceneAt(scenes, lastIdx).id
                /\ ~Renders[1].outgoing
                /\ Renders[1].progress = ONE

\* a tick of the interactive loop rendered two scenes part-way through a transition
C4_Witness ==
    /\ lastTick = "draw" /\ lastIdx > 0
    /\ Len(Renders) = 2 /\ Renders[2].progress > 0 /\ Renders[2].progress < ONE

\* C5: between two standard-fade scenes, at progress p of the transition the
\* outgoing scene is drawn with opacity 1 - p and the incoming one with
\* opacity p; scenes [0,5) and [5,10) at t = 5.4 give 0.6 and 0.4.
C5_StandardFade ==
    (Ticked /\ Len(Renders) = 2
        /\ Renders[1].tt = "standard" /\ Renders[2].tt = "standard") =>
        LET tIn == lastT - SceneAt(scenes, lastIdx).startTime
        IN /\ Renders[2].opacity * SEC = tIn * ONE
           /\ Renders[1].opacity * SEC = (SEC - tIn) * ONE
           /\ Renders[1].opacity + Renders[2].opacity = ONE
           /\ (scenes = FadeScenes /\ lastT = 5400) =>
                  (Renders[1].opacity = 600 /\ Renders[2].opacity = 400)

\* the straight-cut scenario at t = 5.4 s
C5_Witness ==
    /\ Ticked /\ scenes = FadeScenes /\ lastT = 5400
    /\ Len(Renders) = 2 /\ Renders[1].outgoing /\ ~Renders[2].outgoing

\* C6: a polygon-wipe scene is drawn fully opaque and unclipped when outgoing;
\* when incoming it is fully opaque and clipped to six vertices around the
\* centre with radius max(width, height) * p * 1.5.
C6_PolygonWipe ==
    \A i \in 1..Len(Renders) :
        Renders[i].tt = "polygon-wipe" =>
            IF Renders[i].outgoing
            THEN Renders[i].opacity = ONE /\ Renders[i].clip = 0 - 1
            ELSE /\ Renders[i].opacity = ONE
                 /\ Renders[i].vertices = 6
                 /\ 2 * ONE * Renders[i].clip
                       = 3 * Max(dims.width, dims.height) * Renders[i].progress
                 /\ (dims.width = 1280 /\ dims.height = 720
                        /\ 2 * Renders[i].progress = ONE) => Renders[i].clip = 960
                 /\ Renders[i].progress = 0 => Renders[i].clip = 0

\* a 1280x720 frame half-way through a polygon wipe
C6_Witness ==
    /\ dims.width = 1280 /\ dims.height = 720
    /\ Len(Renders) = 2
    /\ Renders[1].tt = "polygon-wipe" /\ Renders[1].outgoing
    /\ Renders[2].tt = "polygon-wipe" /\ Renders[2].progress = 500
    /\ Renders[2].clip = 960

ProgressInRange == \A i \in 1..Len(Renders) :
    Renders[i].progress >= 0 /\ Renders[i].progress <= ONE

\* two successive frames lie in the transition window of the same scene
SameWindow ==
    /\ Len(Renders) = 2 /\ Len(Renders') = 2
    /\ Renders[2].id = Renders'[2].id
    /\ lastT' > lastT

\* C7: every transition progress handed to a scene render lies in [0,1], and
\* within one scene's transition window it grows strictly with the time
\* elapsed into the scene.
C7_ProgressBoundedMonotone ==
    /\ []ProgressInRange
    /\ [][SameWindow => Renders'[2].progress > Renders[2].progress]_vars

\* an export tick strictly inside a transition window
C7_Witness ==
    /\ lastTick = "export" /\ Len(Renders) = 2
    /\ Renders[1].progress > 0 /\ Renders[1].progress < ONE

\* C8: the layers of a frame come in the order scene content, embers, overlay
\* video, grain, letterbox bars, and with letterboxing enabled the two bars
\* are the last thing drawn.
C8_LayerOrder ==
    Ticked =>
        /\ \A i, j \in 1..Len(frame) :
              i < j => LayerRank(frame[i]) <= LayerRank(frame[j])
        /\ cfg.enableLetterboxing =>
              /\ Len(frame) >= 2
              /\ frame[Len(frame)].op = "bar"
              /\ frame[Len(frame) - 1].op = "bar"

\* C9: whatever mix of interactive and export ticks has run, forced or random
\* spawning, at most 50 embers are alive.
C9_EmberCap == Len(particles) <= 50

\* an export tick, whose spawn is forced, left the population at the cap
C9_Witness ==
    /\ lastTick = "export" /\ emberTicks >= 1
    /\ Len(particles) = 50

\* the clip frame drawn by the last tick, as a set of layers
ClipRenders(f) == {i \in 1..Len(f) : f[i].op = "scene" /\ f[i].video}

\* a tick whose measured drift exceeded 0.5 s left the clip exactly at its target
SnapExact ==
    (Ticked /\ sampled) =>
        \A i \in ClipRenders(frame) :
            Abs(frame[i].drift) > 500 =>
                \E k \in 1..2, j \in 1..Len(scenes) :
                    /\ scenes[j].id = frame[i].id
                    /\ video[k].src = scenes[j].videoClipUrl
                    /\ video[k].currentTime = TargetTime(scenes[j], lastT)

\* the step is a tick of the same loop, on the same scene, that follows a tick
\* which measured a drift d with 0.05 < |d| <= 0.5, the clip having played
\* since then at the nudged rate
NudgedTick(i, j) ==
    /\ lastTick' = lastTick /\ lastT' > lastT
    /\ i \in ClipRenders(frame) /\ j \in ClipRenders(frame')
    /\ frame[i].id = frame'[j].id
    /\ Abs(frame[i].drift) > 50 /\ Abs(frame[i].drift) <= 500
    /\ \E k \in 1..2, n \in 1..Len(scenes) :
          /\ scenes[n].id = frame[i].id
          /\ video[k].src = scenes[n].videoClipUrl
          /\ ~video[k].paused
          /\ video[k].playbackRate # BaseRate(scenes[n])

\* the time between the two ticks is short enough for the nudge not to
\* overshoot: 0.05 * baseRate * dt < 2 * |d|
ShortGap(i) ==
    \E n \in 1..Len(scenes) :
        /\ scenes[n].id = frame[i].id
        /\ 5 * BaseRate(scenes[n]) * (lastT' - lastT)
              < 2 * Abs(frame[i].drift) * 100 * RATE_ONE

\* C10 as stated: every tick after a drift in (0.05, 0.5] measures a strictly
\* smaller |drift|, and a drift above 0.5 is removed by the tick.
C10_NudgeAlwaysReduces ==
    /\ []SnapExact
    /\ [][\A i \in 1..Len(frame), j \in 1..Len(frame') :
             NudgedTick(i, j) => Abs(frame'[j].drift) < Abs(frame[i].drift)]_vars

\* C10, amended: every tick after a drift d in (0.05, 0.5] measures a strictly
\* smaller |drift| provided the time dt since the previous tick satisfies
\* 0.05 * baseRate * dt < 2 * |d|, and a drift above 0.5 is removed by the tick.
C10_NudgeReducesWithinGap ==
    /\ []SnapExact
    /\ [][\A i \in 1..Len(frame), j \in 1..Len(frame') :
             (NudgedTick(i, j) /\ ShortGap(i))
                 => Abs(frame'[j].drift) < Abs(frame[i].drift)]_vars

\* a tick measured a smaller drift than the tick before it, still above 0.05
C10_Witness ==
    /\ lastTick = "draw" /\ lastT > 280 /\ scenes = SyncScenes
    /\ \E i \in ClipRenders(frame) : frame[i].drift = 56
    /\ video[1].playbackRate = 76

\* ---------------------------------------------------------------- lifecycle

\* the narration is not running: paused, or played to its end
NarrationHalted == audio.paused \/ audio.ended

\* C11: in every state in which interactive playback is idle, the narration,
\* the ambient overlay video and both scene-clip slots are paused; in
\* particular they are after every step that takes playback from playing to idle.
C11_IdleMeansAllPaused ==
    ~isPlaying =>
        /\ NarrationHalted
        /\ vaporPaused
        /\ video[1].paused
        /\ video[2].paused

\* a step that is one draw() composing a frame
DrawTick == Draw /\ ~isExporting

\* C12: a tick of the interactive loop that finds the narration neither paused
\* nor ended leaves a next tick scheduled and the state playing; one that
\* finds it paused or ended leaves no tick scheduled, the state idle and both
\* clip slots paused; in neither case is the processing status touched.
C12_TickReschedulesOrStops ==
    [][DrawTick =>
          /\ status' = status
          /\ IF NarrationHalted
             THEN ~rafDraw' /\ ~isPlaying' /\ video'[1].paused /\ video'[2].paused
             ELSE rafDraw' /\ isPlaying /\ isPlaying']_vars

\* the tick that saw the narration of the clip scenario ended has run
C12_Witness ==
    /\ lastTick = "draw"
    /\ audio.ended
    /\ lastT = audio.duration
    /\ ~isPlaying
    /\ ~rafDraw
    /\ scenes = ClipScenes
    /\ \E k \in 1..2 : video[k].src = "clipB" /\ video[k].currentTime > 0

\* a step that is one exportLoop() getting past its liveness check
ExportTick == (ExportSetupDone \/ ExportLoop) /\ isExportingRef

\* the run is over: flags cleared by recorder.onstop, onExportComplete called
ExportCompleted == exportPc = "done" /\ ~isExporting /\ ~isExportingRef

\* C13: in a run whose clock keeps advancing, a tick of the export loop at a
\* clock time before the narration length schedules the next tick and leaves
\* the recorder recording; the first tick at or after the narration length
\* stops the recorder, which was recording until then, and schedules nothing;
\* and every running export eventually completes.
C13_ExportRunsToCompletion ==
    /\ [][ExportTick =>
             IF lastT' < totalT'
             THEN rafExport' /\ recorder' = "recording"
             ELSE ~rafExport' /\ recorder # "inactive" /\ recorder' = "inactive"]_vars
    /\ ((isExportingRef /\ exportPc = "running") ~> ExportCompleted)

\* a run over the wipe scenario was stopped by the tick at exactly the
\* narration length and has completed
C13_Witness ==
    /\ ExportCompleted
    /\ scenes = WipeScenes
    /\ lastTick = "export"
    /\ lastT = totalT
    /\ totalT = 6000
    /\ recorder = "inactive"
    /\ ~rafExport

\* C14: the exporting flag is never left set with no tick scheduled, that is
\* outside the awaited setup and outside the wait for the recorder's stop
\* event; an iteration that throws reverts the export to idle.
C14_ThrowAbortsExport ==
    isExportingRef => (rafExport \/ exportPc \in {"setup", "stopping"})

\* the liveness flag was cleared while an iteration of the loop is scheduled
StaleTick == rafExport /\ ~isExportingRef

C16_SetupFailureRollsBack ==
    /\ [](exportPc = "failed" =>
             /\ ~isExporting
             /\ ~isExportingRef
             /\ ~rafExport
             /\ status.step = "idle"
             /\ status.progress = 0
             /\ status.message = "Export engine crash."
             /\ ENABLED HandleExport)
    /\ [](exportPc # "failed" => status.message # "Export engine crash.")
    /\ [][exportPc = "failed" /\ exportPc' # "failed" => HandleExport]_vars

\* the setup failed after the audio context had been created, during a preview
C16_Witness ==
    /\ exportPc = "failed"
    /\ audioCtx = "running"
    /\ recorder = "none"
    /\ isPlaying
    /\ status.message = "Export engine crash."

\* C17: while one export is in progress the reported progress percentage
\* never decreases from one report to the next.
C17_ExportProgressNonDecreasing ==
    [][(/\ isExportingRef /\ isExportingRef'
        /\ status.step = "exporting" /\ status'.step = "exporting")
          => status'.progress >= status.progress]_vars

\* ---------------------------------------------------------------- narration audio

\* the trimmer has returned
Trimmed == trimmed.returned \in {"original", "wav"}

\* the blocks whose samples do not exceed the threshold of 0.015
QuietBlocks == {i \in 1..Len(channelData) : Abs(channelData[i]) <= 15}

\* C18: for a waveform none of whose samples exceeds the threshold, the empty
\* one included, the trimmer keeps no segment and returns the original
\* audio; and whenever it returns a re-encoded file, that file holds samples.
C18_SilentInputReturnedUnmodified ==
    Trimmed =>
        /\ (QuietBlocks = 1..Len(channelData)
               => trimmed.returned = "original" /\ trimmed.keepSegments = << >>)
        /\ (trimmed.returned = "wav" => trimmed.totalSamples > 0)

\* a waveform of seven quiet blocks, some of them at the threshold exactly,
\* came back as the original
C18_Witness ==
    /\ trimmed.returned = "original"
    /\ Len(channelData) = 7
    /\ \E i \in 1..7 : channelData[i] = 15
    /\ \E i \in 1..7 : channelData[i] = 0

\* some run of quiet samples is longer than the minimum silence span of 0.4 s
LongQuietRun ==
    \E a \in 1..Len(channelData), b \in 1..Len(channelData) :
        /\ a <= b
        /\ \A i \in a..b : i \in QuietBlocks
        /\ (b - a + 1) * BlockLen > 9600

\* C19: a waveform with a loud sample and without a quiet run longer than
\* the minimum silence span, wherever the quiet runs lie, yields one kept
\* segment and as many output samples as input samples.
C19_ShortSilencesKeepAllSamples ==
    (Trimmed /\ QuietBlocks # 1..Len(channelData) /\ ~LongQuietRun)
        => /\ Len(trimmed.keepSegments) = 1
           /\ trimmed.totalSamples = Len(channelData) * BlockLen

\* the 16-bit and 32-bit little-endian fields of a file, at byte offset o
ReadU16(b, o) == b[o + 1] + 256 * b[o + 2]
ReadU32(b, o) == b[o + 1] + 256 * b[o + 2] + 65536 * b[o + 3] + 16777216 * b[o + 4]

\* C20: the file made from a payload of n 16-bit samples at rate r is a
\* 44-byte header followed by the payload; read back, the header gives
\* "RIFF", size 36 + 2n, "WAVE", "fmt " of size 16, format 1, 1 channel,
\* rate r, byte rate 2r, block align 2, 16 bits, "data" and size 2n.
C20_WavHeaderRoundTrip ==
    wavBlob # << >> =>
        LET n == Len(pcmBuffer) \div 2
        IN /\ Len(pcmBuffer) = 2 * n
           /\ Len(wavBlob) = 44 + 2 * n
           /\ SubSeq(wavBlob, 1, 4) = << 82, 73, 70, 70 >>
           /\ ReadU32(wavBlob, 4) = 36 + 2 * n
           /\ SubSeq(wavBlob, 9, 12) = << 87, 65, 86, 69 >>
           /\ SubSeq(wavBlob, 13, 16) = << 102, 109, 116, 32 >>
           /\ ReadU32(wavBlob, 16) = 16
           /\ ReadU16(wavBlob, 20) = 1
           /\ ReadU16(wavBlob, 22) = 1
           /\ ReadU32(wavBlob, 24) = sampleRate
           /\ ReadU32(wavBlob, 28) = 2 * sampleRate
           /\ ReadU16(wavBlob, 32) = 2
           /\ ReadU16(wavBlob, 34) = 16
           /\ SubSeq(wavBlob, 37, 40) = << 100, 97, 116, 97 >>
           /\ ReadU32(wavBlob, 40) = 2 * n
           /\ SubSeq(wavBlob, 45, Len(wavBlob)) = pcmBuffer

\* the two samples 32767 and -32768 were encoded at 44.1 kHz
C20_Witness ==
    /\ Len(wavBlob) = 48
    /\ sampleRate = 44100
    /\ pcmBuffer = << 255, 127, 0, 128 >>

\* ---------------------------------------------------------------- clip slots

\* C21: a render of a scene whose clip is ready in a slot applies one
\* correction. With drift = clip position - target: above 0.5 s in size the
\* position becomes the target and the rate is left alone; above 0.05 s the
\* rate becomes 0.95 times the base rate when the clip is ahead and 1.05
\* times when it is behind, and the position is left alone; otherwise the
\* rate becomes the base rate and the position is left alone.
C21_OneCorrectionPerRender ==
    [][(DrawTick /\ FindIndex(scenes, audio.currentTime) = 0
          /\ video[1].src = scenes[1].videoClipUrl
          /\ video[1].readyState >= 2)
         => LET target == TargetTime(scenes[1], audio.currentTime)
                base == BaseRate(scenes[1])
                drift == video[1].currentTime - target
            IN IF Abs(drift) > 500
               THEN /\ video'[1].currentTime = target
                    /\ video'[1].playbackRate = video[1].playbackRate
               ELSE IF Abs(drift) > 50
               THEN /\ video'[1].currentTime = video[1].currentTime
                    /\ 100 * video'[1].playbackRate
                          = IF drift > 0 THEN 95 * base ELSE 105 * base
               ELSE /\ video'[1].currentTime = video[1].currentTime
                    /\ video'[1].playbackRate = base]_vars

\* a tick has repositioned a clip that was 0.52 s ahead and left its rate at 1.0
C21_Witness ==
    /\ lastTick = "draw"
    /\ lastT = 280
    /\ scenes = SyncScenes
    /\ Len(frame) > 0
    /\ frame[Len(frame)].op = "scene" /\ frame[Len(frame)].drift = 520
    /\ video[1].currentTime = TargetTime(scenes[1], 280)
    /\ video[1].playbackRate = 40

\* the step is a tick that produces a frame: a draw() of a playing preview
\* that goes on, or an exportLoop() of a running export
ProducingTick ==
    \/ DrawTick /\ isPlaying /\ ~NarrationHalted
    \/ ExportTick

\* C22: a tick that renders the active scene while its clip sits ready and
\* paused in a slot resumes that slot.
C22_ReadyClipResumed ==
    [][(ProducingTick /\ lastIdx' # NoScene)
         => \A k \in 1..2 :
               (/\ scenes[lastIdx' + 1].videoClipUrl # "none"
                /\ video[k].src = scenes[lastIdx' + 1].videoClipUrl
                /\ video[k].readyState >= 2
                /\ video[k].paused)
                   => ~video'[k].paused]_vars

\* the step is a tick of either loop that composes a frame
AnyTick == DrawTick \/ ExportTick

\* C23: after a tick of either loop during which the active scene declares a
\* clip, that clip is the source of one of the two slots, whenever the clip
\* was given to the scene; a slot that the tick gave a new source is at
\* position 0 and has not been started.
C23_ActiveClipIsBound ==
    [][(AnyTick /\ lastIdx' # NoScene
          /\ scenes[lastIdx' + 1].videoClipUrl # NoUrl)
         => /\ \E k \in 1..2 : video'[k].src = scenes[lastIdx' + 1].videoClipUrl
            /\ \A k \in 1..2 :
                  video'[k].src # video[k].src
                     => video'[k].currentTime = 0 /\ video'[k].paused]_vars

\* C24: a slot that a tick gives a new source was not playing a clip when the
\* tick began.
C24_OverwrittenSlotIsIdle ==
    [][AnyTick =>
          \A k \in 1..2 :
             video'[k].src # video[k].src => video[k].paused]_vars

\* the tick is inside the transition window of the scene it finds active
InWindow ==
    /\ lastIdx' > 0
    /\ lastT' - scenes[lastIdx' + 1].startTime < TRANSITION_DURATION

\* C26: a tick inside the transition window of a scene leaves the clip of
\* the outgoing scene in the slot that held it: giving the incoming scene's
\* clip a slot does not take the slot of the outgoing clip.
C26_OutgoingClipKeepsSlot ==
    [][(AnyTick /\ InWindow /\ scenes[lastIdx'].videoClipUrl # NoUrl)
         => \A k \in 1..2 :
               video[k].src = scenes[lastIdx'].videoClipUrl
                  => video'[k].src = video[k].src]_vars

\* ---------------------------------------------------------------- kept segments

\* block a is loud and is followed by exactly q quiet blocks, up to the next
\* loud block or the end of the waveform
QuietRunAfter(a, q) ==
    /\ a \in 1..Len(channelData) /\ a \notin QuietBlocks
    /\ q >= 1 /\ a + q <= Len(channelData)
    /\ \A i \in (a + 1)..(a + q) : i \in QuietBlocks
    /\ (a + q < Len(channelData) => (a + q + 1) \notin QuietBlocks)

\* the index range [start, end) of a kept segment holds all samples of block b
Holds(seg, b) == seg.start <= (b - 1) * BlockLen /\ b * BlockLen <= seg.end

\* C25: a loud sample followed by a run of at least minSilenceSamples quiet
\* samples ends its kept segment one padding after it, and the next segment,
\* if a loud sample follows, starts one padding before that sample (not
\* before sample 0); a shorter run leaves the loud samples on its two sides
\* and all samples between them in one kept segment.
C25_SilenceRunClosesSegment ==
    Trimmed =>
        \A a \in 1..Len(channelData), q \in 1..Len(channelData) :
            QuietRunAfter(a, q) =>
                IF q * BlockLen >= (sampleRate * 4) \div 10
                THEN /\ \E k \in 1..Len(trimmed.keepSegments) :
                           /\ Holds(trimmed.keepSegments[k], a)
                           /\ trimmed.keepSegments[k].end
                                 = a * BlockLen + sampleRate \div 10
                     /\ a + q < Len(channelData)
                           => \E k \in 1..Len(trimmed.keepSegments) :
                                 trimmed.keepSegments[k].start
                                    = Max(0, (a + q) * BlockLen - sampleRate \div 10)
                ELSE a + q < Len(channelData)
                        => \E k \in 1..Len(trimmed.keepSegments) :
                              /\ Holds(trimmed.keepSegments[k], a)
                              /\ Holds(trimmed.keepSegments[k], a + q + 1)

\* the blocks one of whose samples exceeds the threshold
LoudBlocks == (1..Len(channelData)) \ QuietBlocks

\* C27: the kept segments lie inside the waveform and are not empty, each
\* one ends before the next begins, and every loud sample is in one of them;
\* so no more samples come out than went in.
C27_SegmentsWellFormed ==
    Trimmed =>
        LET segs == trimmed.keepSegments
            N == Len(channelData) * BlockLen
        IN /\ \A k \in 1..Len(segs) :
                 0 <= segs[k].start /\ segs[k].start < segs[k].end /\ segs[k].end <= N
           /\ \A k \in 1..(Len(segs) - 1) : segs[k].end <= segs[k + 1].start
           /\ \A b \in LoudBlocks : \E k \in 1..Len(segs) : Holds(segs[k], b)
           /\ (trimmed.returned = "wav" => trimmed.totalSamples <= N)

\* a waveform with two loud blocks 0.5 s of silence apart came back as two
\* segments, each with its padding
C27_Witness ==
    /\ trimmed.returned = "wav"
    /\ channelData = << 16, 0, 0, 0, 0, 0, 0 - 1200 >>
    /\ Len(trimmed.keepSegments) = 2
    /\ trimmed.keepSegments[1] = [start |-> 0, end |-> 4800]
    /\ trimmed.keepSegments[2] = [start |-> 12000, end |-> 16800]

\* ---------------------------------------------------------------- one export at a time

\* the step begins the setup of an export run
SetupBegins == exportPc' = "setup" /\ (exportPc # "setup" \/ ~isExportingRef)

\* C28: no export run is set up while the exporting flag is set; the flag is
\* cleared by the recorder's stop handler or by the catch block of
\* handleExport only; and the loop of a run that is over takes no part in a
\* later run: its pending frame callback ends without composing a frame or
\* reporting progress, so that one run at most is in progress.
C28_OneExportRun ==
    [][/\ (SetupBegins => ~isExportingRef)
       /\ ((isExportingRef /\ ~isExportingRef') => (RecorderStop \/ ExportSetupFail))
       /\ (StaleExportLoop
             => /\ staleLoop' = NoLoop
                /\ UNCHANGED <<frame, status, video, lastActiveSceneId>>)]_vars

\* C29: once an export run has completed (recorder stopped, flags cleared,
\* completion callback called), the processing status is not an export
\* progress below 100 percent.
C29_NoStaleProgressAfterExport ==
    ExportCompleted => ~(status.step = "exporting" /\ status.progress < 100)

\* ---------------------------------------------------------------- retries

\* a failure that the claim calls transient: 429, 500 and above, or no status
TransientFailure(o) == ~o.ok /\ (o.status = 429 \/ o.status >= 500 \/ o.status = 0)

\* C30: a call given r retries invokes the operation r + 1 times at most;
\* every attempt but the last one ended in a transient failure, so a success
\* or a non-transient failure is never followed by another attempt; a
\* success makes the call return and a non-transient failure makes it throw
\* at once; no delay between attempts exceeds 45000 ms; and without an API
\* key the call throws without invoking the operation.
C30_RetryBudget ==
    LET n == Len(retry.attempts)
    IN /\ n <= retry.given + 1
       /\ \A i \in 1..(n - 1) : TransientFailure(retry.attempts[i])
       /\ (n > 0 /\ retry.attempts[n].ok) => retry.pc = "returned"
       /\ (n > 0 /\ ~retry.attempts[n].ok /\ ~TransientFailure(retry.attempts[n]))
             => retry.pc = "thrown"
       /\ retry.pc = "returned" => (n > 0 /\ retry.attempts[n].ok)
       /\ retry.pc = "waiting" => (retry.retries > 0 /\ Len(retry.delays) = n)
       /\ \A i \in 1..Len(retry.delays) :
             retry.delays[i] > 0 /\ retry.delays[i] <= 45000
       /\ ~retry.apiKey => (n = 0 /\ retry.pc \in {"called", "thrown"})

\* a call given 3 retries met 429, no status and 503, waited 5, 2 and 4 s,
\* and returned on its fourth attempt
C30_Witness ==
    /\ retry.pc = "returned"
    /\ retry.given = 3
    /\ Len(retry.attempts) = 4
    /\ retry.attempts[1].status = 429
    /\ retry.attempts[2].status = 0 /\ ~retry.attempts[2].ok
    /\ retry.attempts[3].status = 503
    /\ retry.delays = << 5000, 2000, 4000 >>

====
